---- MODULE Spec2Model ----
(***************************************************************************)
(* Model of the adoption-insights table footer pagination component:       *)
(* generateRowsPerPageOptions (the rows-per-page option generator) and the *)
(* TableFooterPagination display gate that renders either nothing or the   *)
(* pagination widget with the generated options.                           *)
(***************************************************************************)
EXTENDS Integers, Sequences, FiniteSets

VARIABLES props, rowsPerPageOptions, branch, defaultOptions, element,
          remembered, interleaved

vars == <<props, rowsPerPageOptions, branch, defaultOptions, element,
          remembered, interleaved>>

(* ---------------------------- bounds ----------------------------------- *)

\* Largest count fed to the component (the candidates end at 20).
MaxCount == 25

\* Largest page index fed to the component.
MaxPage == 1

(* ---------------------- JavaScript numbers and arrays ------------------- *)

\* A JS number: a finite integer or -Infinity (Math.max of no arguments).
Num(n) == [finite |-> TRUE, n |-> n]

NegInfinity == [finite |-> FALSE, n |-> 0]

\* x + k in JS arithmetic: -Infinity + k is -Infinity.
Add(x, k) == IF x.finite THEN Num(x.n + k) ELSE x

\* a === b on numbers.
StrictEquals(a, b) == a = b

GreaterThan_FiniteOnly(a, b) == a.finite /\ b.finite /\ a.n > b.n

\* a > b on numbers; every finite number is greater than -Infinity.
GreaterThan(a, b) ==
    IF ~b.finite THEN a.finite
    ELSE a.finite /\ a.n > b.n

\* a <= b on numbers; -Infinity is below every number.
LessOrEqual(a, b) ==
    IF ~a.finite THEN TRUE
    ELSE b.finite /\ a.n <= b.n

RECURSIVE SeqMax(_)
SeqMax(arr) ==
    IF Len(arr) = 1 THEN arr[1]
    ELSE LET m == SeqMax(Tail(arr)) IN IF arr[1] > m THEN arr[1] ELSE m

\* Math.max(...arr): -Infinity for an empty array.
MathMax(arr) == IF Len(arr) = 0 THEN NegInfinity ELSE Num(SeqMax(arr))

\* arr.includes(x)
ArrayIncludes(arr, x) == \E i \in 1..Len(arr) : arr[i] = x

ArraySlice_FromStart(arr, start, end) ==
    LET len == Len(arr)
        k == IF start < 0 THEN (IF len + start > 0 THEN len + start ELSE 0)
             ELSE (IF start < len THEN start ELSE len)
        e == IF end < 0 THEN (IF -end < len THEN -end ELSE len)
             ELSE (IF end < len THEN end ELSE len)
    IN SubSeq(arr, k + 1, e)

\* arr.slice(start, end): negative indexes count from the end of the array.
ArraySlice(arr, start, end) ==
    LET len == Len(arr)
        k == IF start < 0 THEN (IF len + start > 0 THEN len + start ELSE 0)
             ELSE (IF start < len THEN start ELSE len)
        e == IF end < 0 THEN (IF len + end > 0 THEN len + end ELSE 0)
             ELSE (IF end < len THEN end ELSE len)
    IN SubSeq(arr, k + 1, e)

\* a.concat(b)
ArrayConcat(a, b) == a \o b

\* arr.filter(option => option < totalCount): the receiver as the call
\* leaves it (self) and the new array it returns (ret).
ArrayFilterLess(arr, totalCount) ==
    [self |-> arr, ret |-> SelectSeq(arr, LAMBDA option : option < totalCount)]

ArrayFilterAtMost_InPlace(arr, totalCount) ==
    LET kept == SelectSeq(arr, LAMBDA option : option <= totalCount)
    IN [self |-> kept, ret |-> kept]

\* arr.filter(option => option <= totalCount)
ArrayFilterAtMost(arr, totalCount) ==
    [self |-> arr, ret |-> SelectSeq(arr, LAMBDA option : option <= totalCount)]

(* ------------------------------ labels --------------------------------- *)

\* Strings are sequences of one-character strings.
DigitChars == <<"0", "1", "2", "3", "4", "5", "6", "7", "8", "9">>

\* String(n) for a non-negative integer n: its decimal digits.
RECURSIVE NumberToString(_)
NumberToString(n) ==
    IF n < 10 THEN <<DigitChars[n + 1]>>
    ELSE NumberToString(n \div 10) \o <<DigitChars[(n % 10) + 1]>>

\* The template literal `Top ${value}`.
TopLabel(value) == <<"T", "o", "p", " ">> \o NumberToString(value)

ToOption_MaxLabel(value) == [label |-> TopLabel(20), value |-> value]

\* value => ({ label: `Top ${value}`, value })
ToOption(value) == [label |-> TopLabel(value), value |-> value]

\* validOptions.map(value => ({ label, value }))
MapToOptions(validOptions) ==
    [i \in 1..Len(validOptions) |-> ToOption(validOptions[i])]

(* ---------------------- generateRowsPerPageOptions --------------------- *)

\* const defaultOptions = [3, 5, 10, 20], created afresh by every call.
DefaultOptionsLiteral == <<3, 5, 10, 20>>

InGapFillRange_NoUpperBound(totalCount, table, maxDefaultOption) ==
    /\ totalCount > 0
    /\ ~ArrayIncludes(table, totalCount)

\* 0 < totalCount <= maxDefaultOption and totalCount is not a candidate.
InGapFillRange(totalCount, table, maxDefaultOption) ==
    /\ totalCount > 0
    /\ LessOrEqual(Num(totalCount), maxDefaultOption)
    /\ ~ArrayIncludes(table, totalCount)

IsReplaceCase_AtLeast(totalCount, lastValidDefault) ==
    \/ StrictEquals(Num(totalCount), Add(lastValidDefault, 1))
    \/ GreaterThan(Num(totalCount), Add(lastValidDefault, 1))

\* totalCount === lastValidDefault + 1
IsReplaceCase(totalCount, lastValidDefault) ==
    StrictEquals(Num(totalCount), Add(lastValidDefault, 1))

\* totalCount > lastValidDefault + 1
IsGapCase(totalCount, lastValidDefault) ==
    GreaterThan(Num(totalCount), Add(lastValidDefault, 1))

ReplaceBranch_NoDrop(validDefaults, totalCount) ==
    ArrayConcat(validDefaults, <<totalCount>>)

\* validDefaults.length > 1 ? validDefaults.slice(0, -1).concat([totalCount])
\*                          : validDefaults.concat([totalCount])
ReplaceBranch(validDefaults, totalCount) ==
    IF Len(validDefaults) > 1
    THEN ArrayConcat(ArraySlice(validDefaults, 0, -1), <<totalCount>>)
    ELSE ArrayConcat(validDefaults, <<totalCount>>)

GapBranch_AllDefaults(validDefaults, totalCount) ==
    ArrayConcat(DefaultOptionsLiteral, <<totalCount>>)

\* validDefaults.concat([totalCount])
GapBranch(validDefaults, totalCount) ==
    ArrayConcat(validDefaults, <<totalCount>>)

\* The fall-through return: the candidates <= totalCount.
DefaultBranch(table, totalCount) ==
    LET f == ArrayFilterAtMost(table, totalCount)
    IN [options |-> MapToOptions(f.ret), branch |-> "default",
        defaultOptions |-> f.self]

\* The options returned for totalCount, the return statement that produced
\* them, and the candidate array as the call leaves it.
generateRowsPerPageOptions(totalCount) ==
    LET table == DefaultOptionsLiteral
        maxDefaultOption == MathMax(table)
    IN IF InGapFillRange(totalCount, table, maxDefaultOption)
       THEN LET f == ArrayFilterLess(table, totalCount)
                validDefaults == f.ret
                lastValidDefault == MathMax(validDefaults)
            IN IF IsReplaceCase(totalCount, lastValidDefault)
               THEN [options |-> MapToOptions(ReplaceBranch(validDefaults, totalCount)),
                     branch |-> "replace",
                     defaultOptions |-> f.self]
               ELSE IF IsGapCase(totalCount, lastValidDefault)
               THEN [options |-> MapToOptions(GapBranch(validDefaults, totalCount)),
                     branch |-> "gap",
                     defaultOptions |-> f.self]
               ELSE DefaultBranch(f.self, totalCount)
       ELSE DefaultBranch(table, totalCount)

(* -------------------------- TableFooterPagination ---------------------- *)

RendersNothing_Empty(options) == Len(options) < 1

\* rowsPerPageOptions.length <= 1
RendersNothing(options) == Len(options) <= 1

Null == [type |-> "null"]

TablePaginationProps_Clamped(p, options) ==
    [type |-> "TablePagination",
     rowsPerPageOptions |-> options,
     count |-> p.count,
     rowsPerPage |-> IF \E i \in 1..Len(options) : options[i].value = p.rowsPerPage
                     THEN p.rowsPerPage
                     ELSE options[Len(options)].value,
     page |-> p.page,
     onPageChange |-> p.handleChangePage,
     onRowsPerPageChange |-> p.handleChangeRowsPerPage]

\* The props handed to <TablePagination>.
TablePaginationProps(p, options) ==
    [type |-> "TablePagination",
     rowsPerPageOptions |-> options,
     count |-> p.count,
     rowsPerPage |-> p.rowsPerPage,
     page |-> p.page,
     onPageChange |-> p.handleChangePage,
     onRowsPerPageChange |-> p.handleChangeRowsPerPage]

\* One render of the component: the generator's outcome and the element.
TableFooterPagination(p) ==
    LET g == generateRowsPerPageOptions(p.count)
    IN [generated |-> g,
        element |-> IF RendersNothing(g.options) THEN Null
                    ELSE TablePaginationProps(p, g.options)]

(* ------------------------------ the machine ---------------------------- *)

\* Identities of the two callbacks the host passes.
PageHandlers == {"hostPageHandler"}

RowsHandlers == {"hostRowsHandler"}

\* The props a host passes: interface TableFooterPaginationProps.
PropsSet ==
    [count : 0..MaxCount,
     rowsPerPage : {5, 10},
     page : 0..MaxPage,
     handleChangePage : PageHandlers,
     handleChangeRowsPerPage : RowsHandlers]

\* The first render of the component.
Init ==
    \E p \in PropsSet :
        LET r == TableFooterPagination(p)
        IN /\ props = p
           /\ rowsPerPageOptions = r.generated.options
           /\ branch = r.generated.branch
           /\ defaultOptions = r.generated.defaultOptions
           /\ element = r.element
           /\ remembered = [totalCount |-> p.count, options |-> r.generated.options]
           /\ interleaved = FALSE

\* A later render with props p.  remembered is the outcome of one earlier
\* call of the generator (any of them: keep chooses) and interleaved tells
\* whether a call with another argument came after it.
Render(p, keep) ==
    LET r == TableFooterPagination(p)
    IN /\ props' = p
       /\ rowsPerPageOptions' = r.generated.options
       /\ branch' = r.generated.branch
       /\ defaultOptions' = r.generated.defaultOptions
       /\ element' = r.element
       /\ remembered' = IF keep THEN remembered
                        ELSE [totalCount |-> p.count, options |-> r.generated.options]
       /\ interleaved' = IF keep
                         THEN (interleaved \/ p.count # remembered.totalCount)
                         ELSE FALSE

Next == \E p \in PropsSet, keep \in BOOLEAN : Render(p, keep)

Spec == Init /\ [][Next]_vars

(* ------------------------- helpers of the properties ------------------- *)

\* The values of a list of options, in order.
Values(options) == [i \in 1..Len(options) |-> options[i].value]

\* The four candidates as the documentation lists them.
Candidates == <<3, 5, 10, 20>>

CandidateSet == {3, 5, 10, 20}

CandidatesBelow(n) == SelectSeq(Candidates, LAMBDA c : c < n)

CandidatesUpTo(n) == SelectSeq(Candidates, LAMBDA c : c <= n)

Min(a, b) == IF a < b THEN a ELSE b

IsDigitChar(c) == \E d \in 1..10 : DigitChars[d] = c

DigitValue(c) == (CHOOSE d \in 1..10 : DigitChars[d] = c) - 1

\* The number a string of decimal digits denotes.
RECURSIVE ParseDecimal(_)
ParseDecimal(chars) ==
    IF Len(chars) = 0 THEN 0
    ELSE 10 * ParseDecimal(SubSeq(chars, 1, Len(chars) - 1))
         + DigitValue(chars[Len(chars)])

\* chars is the decimal form of a non-negative integer: digits only, no
\* leading zero.
IsDecimalForm(chars) ==
    /\ Len(chars) >= 1
    /\ \A i \in 1..Len(chars) : IsDigitChar(chars[i])
    /\ Len(chars) > 1 => chars[1] # "0"

\* count lies in 1..20, is no candidate and has a candidate below it.
HasCandidateBelow(n) ==
    /\ n > 0
    /\ n <= 20
    /\ n \notin CandidateSet
    /\ Len(CandidatesBelow(n)) > 0

LargestBelow(n) == CandidatesBelow(n)[Len(CandidatesBelow(n))]

(* ------------------------------ properties ----------------------------- *)

\* C1: every returned option has a positive value <= totalCount, and the
\* values are strictly ascending (hence no value occurs twice).
C1_ValuesBoundedAscending ==
    LET v == Values(rowsPerPageOptions)
    IN /\ \A i \in 1..Len(v) : v[i] > 0 /\ v[i] <= props.count
       /\ \A i, j \in 1..Len(v) : i < j => v[i] < v[j]

C1_Witness ==
    /\ branch = "gap"
    /\ props.count = 12
    /\ Len(rowsPerPageOptions) = 4

\* C2: for totalCount 0, above 20 or equal to a candidate, the result is
\* exactly the candidates <= totalCount in ascending order; totalCount
\* itself is never offered above 20.
C2_DefaultFiltering ==
    LET n == props.count
        v == Values(rowsPerPageOptions)
    IN (n = 0 \/ n > 20 \/ n \in CandidateSet) =>
          /\ v = CandidatesUpTo(n)
          /\ n = 0 => v = <<>>
          /\ n = 3 => v = <<3>>
          /\ n = 5 => v = <<3, 5>>
          /\ n = 10 => v = <<3, 5, 10>>
          /\ n = 20 => v = <<3, 5, 10, 20>>
          /\ n > 20 => v = <<3, 5, 10, 20>>

C2_Witness ==
    /\ props.count = 25
    /\ Values(rowsPerPageOptions) = <<3, 5, 10, 20>>

\* C3: when totalCount in 1..20 is no candidate and is one more than the
\* largest candidate below it, the result is the candidates below it,
\* without the last one if there are several, followed by totalCount.
C3_ReplaceLast ==
    LET n == props.count
        v == Values(rowsPerPageOptions)
        below == CandidatesBelow(n)
    IN /\ (HasCandidateBelow(n) /\ n = LargestBelow(n) + 1) =>
            v = IF Len(below) > 1
                THEN SubSeq(below, 1, Len(below) - 1) \o <<n>>
                ELSE below \o <<n>>
       /\ n = 4 => v = <<3, 4>>
       /\ n = 6 => v = <<3, 6>>
       /\ n = 11 => v = <<3, 5, 11>>

C3_Witness ==
    /\ props.count = 6
    /\ Values(rowsPerPageOptions) = <<3, 6>>

\* C4: when totalCount in 1..20 is no candidate and is more than one above
\* the largest candidate below it (7, 8, 9, 12..19), the result is every
\* candidate below it followed by totalCount.
C4_GapAppend ==
    LET n == props.count
        v == Values(rowsPerPageOptions)
    IN /\ (HasCandidateBelow(n) /\ n > LargestBelow(n) + 1)
            <=> n \in ({7, 8, 9} \cup (12..19))
       /\ (HasCandidateBelow(n) /\ n > LargestBelow(n) + 1) =>
            v = CandidatesBelow(n) \o <<n>>
       /\ n = 7 => v = <<3, 5, 7>>
       /\ n = 12 => v = <<3, 5, 10, 12>>

C4_Witness ==
    /\ props.count = 7
    /\ Values(rowsPerPageOptions) = <<3, 5, 7>>

\* C5: nothing is rendered exactly when the generator returned at most one
\* option, that is exactly for count in 0..3; otherwise the widget is
\* rendered with exactly the generated options.
C5_DisplayGate ==
    /\ (element = Null) <=> (Len(rowsPerPageOptions) <= 1)
    /\ (element = Null) <=> (props.count \in 0..3)
    /\ element.type \in {"null", "TablePagination"}
    /\ element.type = "TablePagination" =>
          element.rowsPerPageOptions = rowsPerPageOptions

C5_Witness ==
    /\ props.count = 3
    /\ Len(rowsPerPageOptions) = 1
    /\ element = Null

\* C6: in every branch each option's label is "Top " followed by the
\* decimal form of that option's own value.
C6_LabelOfOwnValue ==
    \A i \in 1..Len(rowsPerPageOptions) :
        LET label == rowsPerPageOptions[i].label
            digits == SubSeq(label, 5, Len(label))
        IN /\ Len(label) >= 5
           /\ SubSeq(label, 1, 4) = <<"T", "o", "p", " ">>
           /\ IsDecimalForm(digits)
           /\ ParseDecimal(digits) = rowsPerPageOptions[i].value

C6_Witness ==
    /\ branch = "replace"
    /\ props.count = 11
    /\ rowsPerPageOptions[3].label = <<"T", "o", "p", " ", "1", "1">>
    /\ rowsPerPageOptions[2].label = <<"T", "o", "p", " ", "5">>

C8_PropsForwarded ==
    element.type = "TablePagination" =>
        /\ element.count = props.count
        /\ element.rowsPerPage = props.rowsPerPage
        /\ element.page = props.page
        /\ element.onPageChange = props.handleChangePage
        /\ element.onRowsPerPageChange = props.handleChangeRowsPerPage

C8_Witness ==
    /\ element.type = "TablePagination"
    /\ props.count = 6
    /\ props.rowsPerPage = 5
    /\ element.rowsPerPage = 5
    /\ \A i \in 1..Len(rowsPerPageOptions) : rowsPerPageOptions[i].value # 5

\* C9 as stated: for totalCount = 11 the gap branch (totalCount >
\* lastValid + 1) applies and yields [3,5,11].
C9_GapBranchFor11 ==
    props.count = 11 =>
        /\ branch = "gap"
        /\ Values(rowsPerPageOptions) = <<3, 5, 11>>

\* C9 amended: for totalCount = 11 the replace branch (totalCount =
\* lastValid + 1, 11 = 10 + 1) applies: 10 is dropped, 11 appended, which
\* yields [3,5,11].
C9_ReplaceBranchFor11 ==
    props.count = 11 =>
        /\ branch = "replace"
        /\ Values(rowsPerPageOptions) = <<3, 5, 11>>

C9_Witness ==
    /\ props.count = 11
    /\ branch = "replace"
    /\ Len(rowsPerPageOptions) = 3

\* C10: for totalCount >= 1 the largest (last) option is min(totalCount,
\* 20); for totalCount 1 and 2 the result is the single option totalCount.
C10_LargestIsMin ==
    LET n == props.count
        v == Values(rowsPerPageOptions)
    IN n >= 1 =>
          /\ Len(v) >= 1
          /\ v[Len(v)] = Min(n, 20)
          /\ \A i \in 1..Len(v) : v[i] <= v[Len(v)]
          /\ n \in {1, 2} => v = <<n>>

C10_Witness ==
    /\ props.count = 1
    /\ Values(rowsPerPageOptions) = <<1>>
    /\ branch = "gap"

====
